---- MODULE Spec2Model ----
(***************************************************************************)
(* A model of script.js: the IndexedDB key and password stores, the        *)
(* AES-GCM encryption of password strings, and the handlers of the page    *)
(* (initApp, add, reveal, delete), run by several pages that share one     *)
(* storage namespace.                                                      *)
(*                                                                         *)
(* Strings are sequences of UTF-16 code units, byte arrays are sequences   *)
(* of numbers 0..255.                                                      *)
(***************************************************************************)
EXTENDS Integers, Sequences, FiniteSets, Bags, TLC

(***************************************************************************)
(* Bounds of the model.                                                    *)
(***************************************************************************)
\* keys that crypto.subtle.generateKey hands out before it is no longer called
NumKeys == 2
\* nonces that crypto.getRandomValues can return
NumIvs == 2
\* largest id the key generator of the passwords store hands out
MaxId == 2
\* handler tasks (add, delete) in flight at once, over all pages
MaxTasks == 2
\* longest plaintext (in code units) of the encryption experiments
MaxLen == 2
\* largest length asked of the password generator
MaxGenLen == 2

(***************************************************************************)
(* Program constants.                                                      *)
(***************************************************************************)
\* store.get(1), store.put({ id: 1, rawKey })
KEY_ID == 1
\* new Uint8Array(12)
IvLen == 12

Tabs == {"page1", "page2"}
Keys == 1..NumKeys
IVs == {[i \in 1..IvLen |-> b] : b \in 0..(NumIvs - 1)}

\* let rawMasterKey = null: no key
NoKey == 0

(***************************************************************************)
(* Strings: String.prototype.trim, TextEncoder, TextDecoder.               *)
(***************************************************************************)
\* WhiteSpace and LineTerminator code points, which trim() strips
IsWhiteSpace(c) ==
    \/ c \in {9, 10, 11, 12, 13, 32, 160, 5760, 8232, 8233, 8239, 8287, 12288, 65279}
    \/ (c >= 8192 /\ c <= 8202)

RECURSIVE TrimStart(_)
TrimStart(s) ==
    IF s = <<>> THEN <<>>
    ELSE IF IsWhiteSpace(Head(s)) THEN TrimStart(Tail(s))
    ELSE s

RECURSIVE TrimEnd(_)
TrimEnd(s) ==
    IF s = <<>> THEN <<>>
    ELSE IF IsWhiteSpace(s[Len(s)]) THEN TrimEnd(SubSeq(s, 1, Len(s) - 1))
    ELSE s

\* value.trim()
Trim(s) == TrimEnd(TrimStart(s))

IsHighSurrogate(c) == c >= 55296 /\ c <= 56319
IsLowSurrogate(c) == c >= 56320 /\ c <= 57343

\* a DOMString read as a USVString: a surrogate pair is one scalar value, an
\* unpaired surrogate becomes U+FFFD
RECURSIVE ToScalars(_)
ToScalars(s) ==
    IF s = <<>> THEN <<>>
    ELSE IF IsHighSurrogate(s[1]) /\ Len(s) >= 2 /\ IsLowSurrogate(s[2])
    THEN <<65536 + (s[1] - 55296) * 1024 + (s[2] - 56320)>> \o ToScalars(Tail(Tail(s)))
    ELSE IF IsHighSurrogate(s[1]) \/ IsLowSurrogate(s[1])
    THEN <<65533>> \o ToScalars(Tail(s))
    ELSE <<s[1]>> \o ToScalars(Tail(s))

\* the UTF-8 bytes of one scalar value
Utf8Bytes(c) ==
    IF c < 128 THEN <<c>>
    ELSE IF c < 2048 THEN <<192 + (c \div 64), 128 + (c % 64)>>
    ELSE IF c < 65536
    THEN <<224 + (c \div 4096), 128 + ((c \div 64) % 64), 128 + (c % 64)>>
    ELSE <<240 + (c \div 262144), 128 + ((c \div 4096) % 64),
           128 + ((c \div 64) % 64), 128 + (c % 64)>>

RECURSIVE EncodeScalars(_)
EncodeScalars(cs) ==
    IF cs = <<>> THEN <<>> ELSE Utf8Bytes(Head(cs)) \o EncodeScalars(Tail(cs))

\* new TextEncoder().encode(str)
TextEncode(str) == EncodeScalars(ToScalars(str))

IsCont(bs, i) == i <= Len(bs) /\ bs[i] >= 128 /\ bs[i] <= 191

\* the scalar values of a byte sequence; an ill-formed byte decodes to U+FFFD
RECURSIVE DecodeBytes(_)
DecodeBytes(bs) ==
    IF bs = <<>> THEN <<>>
    ELSE LET b == bs[1] IN
         IF b < 128 THEN <<b>> \o DecodeBytes(Tail(bs))
         ELSE IF b >= 194 /\ b <= 223 /\ IsCont(bs, 2)
         THEN <<(b - 192) * 64 + (bs[2] - 128)>> \o DecodeBytes(SubSeq(bs, 3, Len(bs)))
         ELSE IF b >= 224 /\ b <= 239 /\ IsCont(bs, 2) /\ IsCont(bs, 3)
         THEN <<(b - 224) * 4096 + (bs[2] - 128) * 64 + (bs[3] - 128)>>
              \o DecodeBytes(SubSeq(bs, 4, Len(bs)))
         ELSE IF b >= 240 /\ b <= 244 /\ IsCont(bs, 2) /\ IsCont(bs, 3) /\ IsCont(bs, 4)
         THEN <<(b - 240) * 262144 + (bs[2] - 128) * 4096 + (bs[3] - 128) * 64
                + (bs[4] - 128)>> \o DecodeBytes(SubSeq(bs, 5, Len(bs)))
         ELSE <<65533>> \o DecodeBytes(Tail(bs))

\* scalar values back to UTF-16 code units
RECURSIVE FromScalars(_)
FromScalars(cs) ==
    IF cs = <<>> THEN <<>>
    ELSE IF Head(cs) >= 65536
    THEN <<55296 + ((Head(cs) - 65536) \div 1024), 56320 + ((Head(cs) - 65536) % 1024)>>
         \o FromScalars(Tail(cs))
    ELSE <<Head(cs)>> \o FromScalars(Tail(cs))

\* the decoder's BOM handling: ignoreBOM is false by default, so a leading
\* U+FEFF is dropped from the output
StripBOM(cs) == IF cs # <<>> /\ Head(cs) = 65279 THEN Tail(cs) ELSE cs

\* new TextDecoder().decode(buffer)
TextDecode(bytes) == FromScalars(StripBOM(DecodeBytes(bytes)))

(***************************************************************************)
(* AES-GCM.  The counter mode is a keystream added to each plaintext byte; *)
(* the authentication tag is an ideal one: the tag of (key, iv, body) is   *)
(* that triple, so a tag is valid exactly for the key, nonce and body it   *)
(* was made for.  The array the code calls ciphertext is body followed by  *)
(* the tag.                                                                *)
(***************************************************************************)
RECURSIVE SumSeq(_)
SumSeq(s) == IF s = <<>> THEN 0 ELSE Head(s) + SumSeq(Tail(s))

KeyStream(key, iv, i) == (89 * key + 31 * SumSeq(iv) + 7 * i) % 256

\* flip: the bit in which a value differs from the tag, none for the tag itself
GcmTag(key, iv, body) == [key |-> key, iv |-> iv, body |-> body, flip |-> <<>>]

\* crypto.subtle.encrypt({ name: 'AES-GCM', iv }, key, data)
AesGcmEncrypt(key, iv, data) ==
    LET body == [i \in 1..Len(data) |-> (data[i] + KeyStream(key, iv, i)) % 256]
    IN  [body |-> body, tag |-> GcmTag(key, iv, body)]

DecryptionFailed == [ok |-> FALSE, text |-> <<>>]

\* a decryption that returns the bytes without verifying the tag
AesGcmDecryptUnchecked(key, iv, ct) ==
    [ok |-> TRUE,
     bytes |-> [i \in 1..Len(ct.body) |-> (ct.body[i] + 256 - KeyStream(key, iv, i)) % 256]]

\* crypto.subtle.decrypt({ name: 'AES-GCM', iv }, key, ciphertext): rejects
\* (OperationError) unless the tag verifies
AesGcmDecrypt(key, iv, ct) ==
    IF ct.tag = GcmTag(key, iv, ct.body)
    THEN [ok |-> TRUE,
          bytes |-> [i \in 1..Len(ct.body) |->
                        (ct.body[i] + 256 - KeyStream(key, iv, i)) % 256]]
    ELSE [ok |-> FALSE, bytes |-> <<>>]

\* an encryptPassword that returns one byte less of the nonce than it used
encryptPasswordShortIv(plainTextPassword, key, iv) ==
    [iv |-> SubSeq(iv, 1, IvLen - 1),
     ciphertext |-> AesGcmEncrypt(key, iv, TextEncode(plainTextPassword))]

\* encryptPassword, with the key it imports and the nonce it draws
encryptPassword(plainTextPassword, key, iv) ==
    [iv |-> iv, ciphertext |-> AesGcmEncrypt(key, iv, TextEncode(plainTextPassword))]

\* decryptPassword with the key it imports: the decrypted string, or the
\* rejection of crypto.subtle.decrypt
decryptPassword(encryptedData, key) ==
    LET r == AesGcmDecrypt(key, encryptedData.iv, encryptedData.ciphertext)
    IN  IF r.ok THEN [ok |-> TRUE, text |-> TextDecode(r.bytes)]
        ELSE DecryptionFailed

(***************************************************************************)
(* The IndexedDB object stores.  A store is the set of its records; a      *)
(* storage call ends in one of three ways:                                 *)
(*   "ok"       the request succeeds and its transaction commits;          *)
(*   "error"    the database cannot be opened or the request fails: the    *)
(*              promise is rejected and nothing is written;                *)
(*   "aborted"  the request succeeds (onsuccess runs, the promise is       *)
(*              resolved) and the transaction then fails to commit: its    *)
(*              writes are rolled back.  The functions listen to the       *)
(*              request only, never to the transaction.                    *)
(***************************************************************************)
ReadOutcomes == {"ok", "error"}
WriteOutcomes == {"ok", "error", "aborted"}

\* the promise of a storage function is resolved
Resolved(o) == o \in {"ok", "aborted"}

\* getRequest.result?.rawKey || null
getMasterKeyFromDB(store) ==
    IF \E r \in store : r.id = KEY_ID
    THEN (CHOOSE r \in store : r.id = KEY_ID).rawKey
    ELSE NoKey

\* store.put({ id: 1, rawKey }): replaces the record under the key path
saveMasterKeyToDB(store, rawKey, o) ==
    IF o = "ok"
    THEN {r \in store : r.id # KEY_ID} \cup {[id |-> KEY_ID, rawKey |-> rawKey]}
    ELSE store

\* a store.add that leaves its record behind although the request failed
saveEncryptedPasswordPartial(store, id, rec, o) ==
    IF o \in {"ok", "error"}
    THEN store \cup {[id |-> id, website |-> rec.website, username |-> rec.username,
                      iv |-> rec.iv, ciphertext |-> rec.ciphertext, given |-> rec.plain]}
    ELSE store

\* store.add({ website, username, iv, ciphertext }) under the id the key
\* generator of the store assigns
saveEncryptedPasswordToDB(store, id, rec, o) ==
    IF o = "ok"
    THEN store \cup {[id |-> id, website |-> rec.website, username |-> rec.username,
                      iv |-> rec.iv, ciphertext |-> rec.ciphertext, given |-> rec.plain]}
    ELSE store

\* a key generator that hands out the same id again
NextKeyGenStuck(gen, o) == gen

\* what the promise of saveEncryptedPasswordToDB is resolved with: resolve()
\* passes no value, whatever id the store assigned (<<>> is undefined, <<n>>
\* is the number n)
saveEncryptedPasswordResult(id) == <<>>

\* the key generator after the add: it advances with a committed add
NextKeyGen(gen, o) == IF o = "ok" THEN gen + 1 ELSE gen

\* the records of a store in the order of their keys, greatest first
RECURSIVE getAllNewestFirst(_)
getAllNewestFirst(store) ==
    IF store = {} THEN <<>>
    ELSE LET last == CHOOSE e \in store : \A x \in store : x.id <= e.id
         IN  <<last>> \o getAllNewestFirst(store \ {last})

\* the records of a store in ascending order of their keys
RECURSIVE InKeyOrder(_)
InKeyOrder(store) ==
    IF store = {} THEN <<>>
    ELSE LET first == CHOOSE e \in store : \A x \in store : e.id <= x.id
         IN  <<first>> \o InKeyOrder(store \ {first})

\* store.getAll(): the records of the store, in the order of their keys
getAllPasswords(store) == InKeyOrder(store)

\* the entries of the rows that refreshPasswordList appends for a list
Rows(list) == {list[i] : i \in 1..Len(list)}

\* a delete that clears the whole store
deletePasswordClear(store, id, o) == IF o = "ok" THEN {} ELSE store

\* store.delete(id)
deletePasswordById(store, id, o) ==
    IF o = "ok" THEN {e \in store : e.id # id} ELSE store

(***************************************************************************)
(* State.                                                                  *)
(***************************************************************************)
VARIABLES
    keyStore,       \* object store encryptionKeyStore
    passwords,      \* object store passwords
    keyGen,         \* the key generator of passwords (autoIncrement)
    pc,             \* per page: where initApp stands
    storedKey,      \* per page: initApp's local storedKey
    rawMasterKey,   \* per page: the global rawMasterKey
    rows,           \* per page: the entries of the rendered table rows
    tasks,          \* the add and delete handlers in flight
    alert,          \* the alert() dialog the last step opened, if any
    keysMade,       \* the keys crypto.subtle.generateKey has made so far
    ensured,        \* history: the key cached by the first initApp that completed
    cx,             \* the encryption experiment (CryptoSpec)
    gx              \* the password generator: its options and its result (GenSpec)

vars == <<keyStore, passwords, keyGen, pc, storedKey, rawMasterKey, rows, tasks,
          alert, keysMade, ensured, cx, gx>>

storage == <<keyStore, passwords, keyGen>>
outside == <<ensured, keysMade>>

\* the dialogs; err names the call whose rejection console.error logs with it
NoAlert == [msg |-> "none", text |-> <<>>, err |-> "none"]
FillAllFields == [msg |-> "fillAllFields", text |-> <<>>, err |-> "none"]
SaveFailed(err) == [msg |-> "saveFailed", text |-> <<>>, err |-> err]
DecryptFailed == [msg |-> "decryptFailed", text |-> <<>>, err |-> "decrypt"]
InitFailed(err) == [msg |-> "initFailed", text |-> <<>>, err |-> err]
ShowPassword(text) == [msg |-> "password", text |-> text, err |-> "none"]

\* what the user can type into the form: two complete forms (the password of
\* the second begins with U+FEFF), and forms with one field empty or blank
Form(w, u, p) == [website |-> w, username |-> u, password |-> p]
Forms ==
    {Form(<<32, 97, 32>>, <<117>>, <<97>>),
     Form(<<32, 97, 32>>, <<117>>, <<65279, 97>>),
     Form(<<>>, <<117>>, <<97>>),
     Form(<<32>>, <<117>>, <<97>>),
     Form(<<32, 97, 32>>, <<>>, <<97>>),
     Form(<<32, 97, 32>>, <<32>>, <<97>>),
     Form(<<32, 97, 32>>, <<117>>, <<>>)}

\* the handlers in flight are a bag of tasks: one more, one settled, one moved on
CanStart == BagCardinality(tasks) < MaxTasks
Started(new) == tasks (+) SetToBag({new})
Settled(task) == tasks (-) SetToBag({task})
Continued(task, new) == (tasks (-) SetToBag({task})) (+) SetToBag({new})

Init ==
    /\ keyStore = {}
    /\ passwords = {}
    /\ keyGen = 1
    /\ pc = [t \in Tabs |-> "closed"]
    /\ storedKey = [t \in Tabs |-> NoKey]
    /\ rawMasterKey = [t \in Tabs |-> NoKey]
    /\ rows = [t \in Tabs |-> {}]
    /\ tasks = EmptyBag
    /\ alert = NoAlert
    /\ keysMade = 0
    /\ ensured = NoKey
    /\ cx = [pc |-> "off"]
    /\ gx = [pc |-> "off"]

\* the pages and the storage, untouched
Idle ==
    /\ alert' = NoAlert
    /\ UNCHANGED <<storage, pc, storedKey, rawMasterKey, rows, tasks, outside, gx>>

(***************************************************************************)
(* initApp.                                                                *)
(***************************************************************************)
\* the page loads: DOMContentLoaded calls initApp, which awaits getMasterKeyFromDB
Open(t) ==
    /\ pc[t] = "closed"
    /\ pc' = [pc EXCEPT ![t] = "getKey"]
    /\ alert' = NoAlert
    /\ UNCHANGED <<storage, storedKey, rawMasterKey, rows, tasks, outside, cx, gx>>

\* history: the run that completes with k cached is the first unless one was before
FirstEnsured(k) == IF ensured = NoKey THEN k ELSE ensured

\* the catch of initApp
InitCatch(t) ==
    /\ alert' = InitFailed(pc[t])
    /\ pc' = [pc EXCEPT ![t] = "failed"]

\* getMasterKeyFromDB settles; with a key stored, initApp caches it and calls
\* refreshPasswordList
initGetKey(t, o) ==
    /\ pc[t] = "getKey"
    /\ IF o = "error"
       THEN /\ InitCatch(t)
            /\ UNCHANGED <<storedKey, rawMasterKey>>
       ELSE LET k == getMasterKeyFromDB(keyStore) IN
            /\ storedKey' = [storedKey EXCEPT ![t] = k]
            /\ IF k # NoKey
               THEN /\ rawMasterKey' = [rawMasterKey EXCEPT ![t] = k]
                    /\ pc' = [pc EXCEPT ![t] = "refresh"]
               ELSE /\ pc' = [pc EXCEPT ![t] = "generate"]
                    /\ UNCHANGED rawMasterKey
            /\ alert' = NoAlert
    /\ UNCHANGED <<storage, rows, tasks, outside, cx, gx>>

\* crypto.subtle.generateKey and exportKey: a key that was never made before
generateMasterKey(made) == made + 1

\* an initApp that caches the key as soon as it is generated
initGenerateEager(t, o) ==
    /\ pc[t] = "generate"
    /\ IF o = "error"
       THEN /\ InitCatch(t)
            /\ UNCHANGED <<storedKey, rawMasterKey, keysMade>>
       ELSE /\ keysMade < NumKeys
            /\ storedKey' = [storedKey EXCEPT ![t] = generateMasterKey(keysMade)]
            /\ rawMasterKey' = [rawMasterKey EXCEPT ![t] = generateMasterKey(keysMade)]
            /\ keysMade' = keysMade + 1
            /\ pc' = [pc EXCEPT ![t] = "saveKey"]
            /\ alert' = NoAlert
    /\ UNCHANGED <<storage, rows, tasks, ensured, cx, gx>>

\* generateMasterKey settles
initGenerate(t, o) ==
    /\ pc[t] = "generate"
    /\ IF o = "error"
       THEN /\ InitCatch(t)
            /\ UNCHANGED <<storedKey, keysMade>>
       ELSE /\ keysMade < NumKeys
            /\ storedKey' = [storedKey EXCEPT ![t] = generateMasterKey(keysMade)]
            /\ keysMade' = keysMade + 1
            /\ pc' = [pc EXCEPT ![t] = "saveKey"]
            /\ alert' = NoAlert
    /\ UNCHANGED <<storage, rawMasterKey, rows, tasks, ensured, cx, gx>>

\* saveMasterKeyToDB settles; initApp caches the key and calls refreshPasswordList
initSaveKey(t, o) ==
    /\ pc[t] = "saveKey"
    /\ keyStore' = saveMasterKeyToDB(keyStore, storedKey[t], o)
    /\ IF Resolved(o)
       THEN /\ rawMasterKey' = [rawMasterKey EXCEPT ![t] = storedKey[t]]
            /\ pc' = [pc EXCEPT ![t] = "refresh"]
            /\ alert' = NoAlert
       ELSE /\ InitCatch(t)
            /\ UNCHANGED rawMasterKey
    /\ UNCHANGED <<passwords, keyGen, storedKey, rows, tasks, outside, cx, gx>>

\* refreshPasswordList settles; initApp registers the handlers
initRefresh(t, o) ==
    /\ pc[t] = "refresh"
    /\ IF o = "error"
       THEN /\ InitCatch(t)
            /\ UNCHANGED <<rows, ensured>>
       ELSE /\ rows' = [rows EXCEPT ![t] = Rows(getAllPasswords(passwords))]
            /\ pc' = [pc EXCEPT ![t] = "ready"]
            /\ ensured' = FirstEnsured(rawMasterKey[t])
            /\ alert' = NoAlert
    /\ UNCHANGED <<storage, storedKey, rawMasterKey, tasks, keysMade, cx, gx>>

\* the user reloads the page: its script state is gone and initApp runs again
Reload(t) ==
    /\ pc[t] # "closed"
    /\ pc' = [pc EXCEPT ![t] = "getKey"]
    /\ storedKey' = [storedKey EXCEPT ![t] = NoKey]
    /\ rawMasterKey' = [rawMasterKey EXCEPT ![t] = NoKey]
    /\ rows' = [rows EXCEPT ![t] = {}]
    /\ tasks' = [task \in {x \in BagToSet(tasks) : x.tab # t} |-> tasks[task]]
    /\ alert' = NoAlert
    /\ UNCHANGED <<storage, outside, cx, gx>>

(***************************************************************************)
(* The form handler (add) and the row buttons (reveal, delete).            *)
(***************************************************************************)
\* a submit handler that does not look at the password field
handleAddPasswordUnchecked(t, websiteValue, usernameValue, passwordValue) ==
    LET website == Trim(websiteValue)
        username == Trim(usernameValue)
        plainPassword == passwordValue
    IN  /\ pc[t] = "ready"
        /\ IF website = <<>> \/ username = <<>>
           THEN /\ alert' = FillAllFields
                /\ UNCHANGED tasks
           ELSE /\ CanStart
                /\ tasks' = Started([pc |-> "encrypt", op |-> "add", tab |-> t,
                                     website |-> website, username |-> username,
                                     plain |-> plainPassword, key |-> rawMasterKey[t]])
                /\ alert' = NoAlert
        /\ UNCHANGED <<storage, pc, storedKey, rawMasterKey, rows, outside, cx, gx>>

\* the form is submitted with website, username and password typed as given:
\* validation, then encryptPassword is called with the cached key
handleAddPasswordSubmit(t, websiteValue, usernameValue, passwordValue) ==
    LET website == Trim(websiteValue)
        username == Trim(usernameValue)
        plainPassword == passwordValue
    IN  /\ pc[t] = "ready"
        /\ IF website = <<>> \/ username = <<>> \/ plainPassword = <<>>
           THEN /\ alert' = FillAllFields
                /\ UNCHANGED tasks
           ELSE /\ CanStart
                /\ tasks' = Started([pc |-> "encrypt", op |-> "add", tab |-> t,
                                     website |-> website, username |-> username,
                                     plain |-> plainPassword, key |-> rawMasterKey[t]])
                /\ alert' = NoAlert
        /\ UNCHANGED <<storage, pc, storedKey, rawMasterKey, rows, outside, cx, gx>>

\* the catch of handleAddPasswordSubmit
AddCatch(task) ==
    /\ alert' = SaveFailed(task.pc)
    /\ tasks' = Settled(task)

\* the handler after saveEncryptedPasswordToDB resolved: it holds what the
\* promise was resolved with and awaits refreshPasswordList; id and did are
\* history (the id the store used, whether the entry was committed)
AddInserted(task, id, did) ==
    [pc |-> "refresh", op |-> "add", tab |-> task.tab, id |-> id, did |-> did,
     returned |-> saveEncryptedPasswordResult(id)]

\* encryptPassword settles: importKey, a fresh nonce, crypto.subtle.encrypt
addEncrypt(task, iv, o) ==
    /\ BagIn(task, tasks)
    /\ task.pc = "encrypt"
    /\ IF o = "error"
       THEN AddCatch(task)
       ELSE LET encrypted == encryptPassword(task.plain, task.key, iv) IN
            /\ tasks' = Continued(task,
                            [pc |-> "insert", op |-> "add", tab |-> task.tab,
                             website |-> task.website, username |-> task.username,
                             plain |-> task.plain,
                             iv |-> encrypted.iv, ciphertext |-> encrypted.ciphertext])
            /\ alert' = NoAlert
    /\ UNCHANGED <<storage, pc, storedKey, rawMasterKey, rows, outside, cx, gx>>

\* saveEncryptedPasswordToDB settles; on its success the handler clears the
\* form and calls refreshPasswordList, which empties the table
addInsert(task, o) ==
    /\ BagIn(task, tasks)
    /\ task.pc = "insert"
    /\ keyGen <= MaxId
    /\ passwords' = saveEncryptedPasswordToDB(passwords, keyGen, task, o)
    /\ keyGen' = NextKeyGen(keyGen, o)
    /\ IF Resolved(o)
       THEN /\ tasks' = Continued(task,
                            AddInserted(task, keyGen,
                                        IF o = "ok" THEN "stored" ELSE "aborted"))
            /\ rows' = [rows EXCEPT ![task.tab] = {}]
            /\ alert' = NoAlert
       ELSE /\ AddCatch(task)
            /\ UNCHANGED rows
    /\ UNCHANGED <<keyStore, pc, storedKey, rawMasterKey, outside, cx, gx>>

\* a click on the delete button of a row: deletePasswordById(entry.id) is called
deleteClick(t, entry) ==
    /\ entry \in rows[t]
    /\ CanStart
    /\ tasks' = Started([pc |-> "delete", op |-> "delete", tab |-> t, id |-> entry.id])
    /\ alert' = NoAlert
    /\ UNCHANGED <<storage, pc, storedKey, rawMasterKey, rows, outside, cx, gx>>

\* deletePasswordById settles; on its success refreshPasswordList is called.
\* The handler has no catch: a rejection ends it.
deleteRun(task, o) ==
    /\ BagIn(task, tasks)
    /\ task.pc = "delete"
    /\ passwords' = deletePasswordById(passwords, task.id, o)
    /\ IF Resolved(o)
       THEN /\ tasks' = Continued(task,
                            [pc |-> "refresh", op |-> "delete", tab |-> task.tab,
                             id |-> task.id,
                             did |-> IF o # "ok" THEN "aborted"
                                     ELSE IF \E e \in passwords : e.id = task.id
                                     THEN "removed" ELSE "absent"])
            /\ rows' = [rows EXCEPT ![task.tab] = {}]
       ELSE /\ tasks' = Settled(task)
            /\ UNCHANGED rows
    /\ alert' = NoAlert
    /\ UNCHANGED <<keyStore, keyGen, pc, storedKey, rawMasterKey, outside, cx, gx>>

\* a refresh that also reads the key again from the key store into the cache
taskRefreshReread(task, o) ==
    /\ BagIn(task, tasks)
    /\ task.pc = "refresh"
    /\ tasks' = Settled(task)
    /\ rawMasterKey' = [rawMasterKey EXCEPT ![task.tab] = getMasterKeyFromDB(keyStore)]
    /\ IF o = "error"
       THEN /\ alert' = IF task.op = "add" THEN SaveFailed(task.pc) ELSE NoAlert
            /\ UNCHANGED rows
       ELSE /\ rows' = [rows EXCEPT ![task.tab] = @ \cup Rows(getAllPasswords(passwords))]
            /\ alert' = NoAlert
    /\ UNCHANGED <<storage, pc, storedKey, outside, cx, gx>>

\* the refreshPasswordList of an add or a delete settles: one row per record
\* is appended to the table
taskRefresh(task, o) ==
    /\ BagIn(task, tasks)
    /\ task.pc = "refresh"
    /\ tasks' = Settled(task)
    /\ IF o = "error"
       THEN /\ alert' = IF task.op = "add" THEN SaveFailed(task.pc) ELSE NoAlert
            /\ UNCHANGED rows
       ELSE /\ rows' = [rows EXCEPT ![task.tab] = @ \cup Rows(getAllPasswords(passwords))]
            /\ alert' = NoAlert
    /\ UNCHANGED <<storage, pc, storedKey, rawMasterKey, outside, cx, gx>>

\* a click on the view button of a row: decryptPassword, then the alert
viewClick(t, entry) ==
    /\ entry \in rows[t]
    /\ LET decrypted == decryptPassword([iv |-> entry.iv, ciphertext |-> entry.ciphertext],
                                        rawMasterKey[t])
       IN  alert' = IF decrypted.ok THEN ShowPassword(decrypted.text) ELSE DecryptFailed
    /\ UNCHANGED <<storage, pc, storedKey, rawMasterKey, rows, tasks, outside, cx, gx>>

\* the steps of the pages P
Step(P) ==
    \/ \E t \in P : Open(t)
    \/ \E t \in P, o \in ReadOutcomes : initGetKey(t, o)
    \/ \E t \in P, o \in ReadOutcomes : initGenerate(t, o)
    \/ \E t \in P, o \in WriteOutcomes : initSaveKey(t, o)
    \/ \E t \in P, o \in ReadOutcomes : initRefresh(t, o)
    \/ \E t \in P : Reload(t)
    \/ \E t \in P, f \in Forms :
          handleAddPasswordSubmit(t, f.website, f.username, f.password)
    \/ \E task \in BagToSet(tasks), iv \in IVs, o \in ReadOutcomes : addEncrypt(task, iv, o)
    \/ \E task \in BagToSet(tasks), o \in WriteOutcomes : addInsert(task, o)
    \/ \E t \in P : \E entry \in rows[t] : deleteClick(t, entry)
    \/ \E task \in BagToSet(tasks), o \in WriteOutcomes : deleteRun(task, o)
    \/ \E task \in BagToSet(tasks), o \in ReadOutcomes : taskRefresh(task, o)
    \/ \E t \in P : \E entry \in rows[t] : viewClick(t, entry)

\* one page, with all its handlers
Next == Step({"page1"})

Spec == Init /\ [][Next]_vars

\* initApp in two pages that share the storage
RaceNext ==
    \/ \E t \in Tabs : Open(t)
    \/ \E t \in Tabs, o \in ReadOutcomes : initGetKey(t, o)
    \/ \E t \in Tabs, o \in ReadOutcomes : initGenerate(t, o)
    \/ \E t \in Tabs, o \in WriteOutcomes : initSaveKey(t, o)
    \/ \E t \in Tabs, o \in ReadOutcomes : initRefresh(t, o)
    \/ \E t \in Tabs : Reload(t)

RaceSpec == Init /\ [][RaceNext]_vars

(***************************************************************************)
(* encryptPassword and decryptPassword on their own: a plaintext, a key    *)
(* and a nonce are drawn, the plaintext is encrypted, the stored fields    *)
(* are possibly changed in one bit, and the result is decrypted.           *)
(***************************************************************************)
\* code units of the plaintexts: a, e acute, U+FEFF, a high and a low surrogate
CodeUnits == {97, 233, 65279, 55357, 56832}

Plaintexts == UNION {[1..n -> CodeUnits] : n \in 0..MaxLen}

\* byte b with bit j changed
FlipBit(b, j) == IF (b \div 2^j) % 2 = 1 THEN b - 2^j ELSE b + 2^j

\* the stored fields { iv, ciphertext } with bit j of byte n changed, the
\* bytes counted through the nonce, the body and the 16 bytes of the tag (a
\* changed tag is a value that is no tag of the ideal function)
BitFlip(data, n, j) ==
    LET body == data.ciphertext.body
        tag == data.ciphertext.tag
    IN  IF n <= IvLen
        THEN [iv |-> [data.iv EXCEPT ![n] = FlipBit(@, j)],
              ciphertext |-> data.ciphertext]
        ELSE IF n <= IvLen + Len(body)
        THEN [iv |-> data.iv,
              ciphertext |-> [body |-> [body EXCEPT ![n - IvLen] = FlipBit(@, j)],
                              tag |-> tag]]
        ELSE [iv |-> data.iv,
              ciphertext |-> [body |-> body,
                              tag |-> [tag EXCEPT !.flip = <<n - IvLen - Len(body), j>>]]]

\* the bytes of the stored fields
StoredBytes(data) == IvLen + Len(data.ciphertext.body) + 16

CryptoInit ==
    /\ keyStore = {}
    /\ passwords = {}
    /\ keyGen = 1
    /\ pc = [t \in Tabs |-> "closed"]
    /\ storedKey = [t \in Tabs |-> NoKey]
    /\ rawMasterKey = [t \in Tabs |-> NoKey]
    /\ rows = [t \in Tabs |-> {}]
    /\ tasks = EmptyBag
    /\ alert = NoAlert
    /\ keysMade = 0
    /\ ensured = NoKey
    /\ cx \in {[pc |-> "input", plain |-> p, key |-> k] : p \in Plaintexts, k \in Keys}
    /\ gx = [pc |-> "off"]

\* encryptPassword(cx.plain, cx.key) with the nonce iv
cxEncrypt(iv) ==
    /\ cx.pc = "input"
    /\ cx' = [pc |-> "encrypted", plain |-> cx.plain, key |-> cx.key,
              data |-> encryptPassword(cx.plain, cx.key, iv), tampered |-> FALSE]
    /\ Idle

\* bit j of byte n of the stored fields changes
cxTamper(n, j) ==
    /\ cx.pc = "encrypted"
    /\ ~cx.tampered
    /\ n <= StoredBytes(cx.data)
    /\ cx' = [cx EXCEPT !.data = BitFlip(cx.data, n, j), !.tampered = TRUE]
    /\ Idle

\* decryptPassword(cx.data, cx.key)
cxDecrypt ==
    /\ cx.pc = "encrypted"
    /\ cx' = [pc |-> "decrypted", plain |-> cx.plain, key |-> cx.key,
              data |-> cx.data, tampered |-> cx.tampered,
              out |-> decryptPassword(cx.data, cx.key)]
    /\ Idle

CryptoNext ==
    \/ \E iv \in IVs : cxEncrypt(iv)
    \/ \E n \in 1..(IvLen + 4 * MaxLen + 16), j \in 0..7 : cxTamper(n, j)
    \/ cxDecrypt

CryptoSpec == CryptoInit /\ [][CryptoNext]_vars

(***************************************************************************)
(* C4 and C5: encryption round trip, tamper detection.                     *)
(***************************************************************************)
\* C4: for every plaintext P, decrypting what encryptPassword made of P with
\* the same key returns exactly P.
RoundTrip ==
    (cx.pc = "decrypted" /\ ~cx.tampered) => cx.out = [ok |-> TRUE, text |-> cx.plain]

\* C5: when one bit of the stored ciphertext or of the stored iv has changed,
\* decryptPassword fails with DecryptionFailed and returns no plaintext.
TamperDetected ==
    (cx.pc = "decrypted" /\ cx.tampered) => cx.out = DecryptionFailed

\* C5 happens: a changed entry has been decrypted
TamperedDecrypted == cx.pc = "decrypted" /\ cx.tampered

(***************************************************************************)
(* C1, C2: the master key.                                                 *)
(***************************************************************************)
\* C1: under every interleaving of the initApp runs of pages that share the
\* storage, a key record once in the key store is never replaced or removed.
KeyNeverOverwritten == [][\A r \in keyStore : r \in keyStore']_vars

\* C2: once an initApp run has completed, no later run generates a key or puts
\* one, and every later run caches the key the completed run cached.
KeyIdempotent ==
    \A t \in Tabs :
        ensured # NoKey =>
            /\ pc[t] \notin {"generate", "saveKey"}
            /\ rawMasterKey[t] \in {NoKey, ensured}

(***************************************************************************)
(* C3: reveal.                                                             *)
(***************************************************************************)
\* C3: for every entry present in the store, whatever sequence of init, add,
\* delete and reload came before, the reveal of the entry shows exactly the
\* password that was given to the add that made it.
RevealShowsGiven ==
    [][\A t \in Tabs : \A entry \in rows[t] \cap passwords :
          viewClick(t, entry) => alert' = ShowPassword(entry.given)]_vars

(***************************************************************************)
(* C6, C7, C8, C9: add.                                                    *)
(***************************************************************************)
\* C6: with two adds in flight, under every interleaving of their encrypt and
\* insert steps, each insert that succeeds leaves the store with exactly one
\* more entry, under an id that no entry has and no other add in flight was
\* stored under.
ConcurrentAddsDistinct ==
    [][\A task \in BagToSet(tasks) :
          (/\ task.pc = "insert"
           /\ tasks' = Continued(task, AddInserted(task, keyGen, "stored")))
          => /\ \A e \in passwords : e.id # keyGen
             /\ \A b \in BagToSet(tasks) :
                   (b.pc = "refresh" /\ b.op = "add" /\ b.did = "stored") => b.id # keyGen
             /\ \E e \in passwords' :
                   /\ e.id = keyGen /\ e.website = task.website /\ e.given = task.plain
                   /\ passwords' = passwords \cup {e}
             /\ Cardinality(passwords') = Cardinality(passwords) + 1]_vars

\* C6 happens: two adds that overlapped have both inserted, the store has
\* their two entries under distinct ids
TwoAddsInserted ==
    \E a, b \in BagToSet(tasks) :
        /\ a # b
        /\ a.pc = "refresh" /\ a.op = "add" /\ a.did = "stored"
        /\ b.pc = "refresh" /\ b.op = "add" /\ b.did = "stored"
        /\ {e.id : e \in passwords} = {a.id, b.id}
        /\ Cardinality(passwords) = 2

\* C7: an add never reports success (goes on to clear the form and refresh
\* the list) while its entry is absent from the store.
AddSuccessMeansStored ==
    [][\A task \in BagToSet(tasks) : \A d \in {"stored", "aborted"} :
          (/\ task.pc = "insert"
           /\ tasks' = Continued(task, AddInserted(task, keyGen, d)))
          => \E e \in passwords' : e.website = task.website /\ e.given = task.plain]_vars

\* C8: an add whose encryption fails, or whose insert fails after the
\* encryption succeeded, leaves the collection as it was: the steps of the
\* add before a successful insert do not change the store.
FailedAddStoresNothing ==
    [][\A task \in BagToSet(tasks) :
          /\ (task.pc = "encrypt" /\ tasks' # tasks /\ ~BagIn(task, tasks'))
                => passwords' = passwords
          /\ (task.pc = "insert" /\ tasks' = Settled(task) /\ alert' = SaveFailed("insert"))
                => passwords' = passwords]_vars

\* C8 happens: the insert of an add has failed
InsertFailed == alert = SaveFailed("insert")

\* C9 as stated: an add with an empty website, username or password is
\* rejected without encrypting or inserting, and an add with none of them
\* empty proceeds to encryption.
AddValidationAsTyped ==
    [][\A t \in Tabs, f \in Forms :
          handleAddPasswordSubmit(t, f.website, f.username, f.password) =>
              IF f.website = <<>> \/ f.username = <<>> \/ f.password = <<>>
              THEN alert' = FillAllFields /\ tasks' = tasks /\ passwords' = passwords
              ELSE \E task \in BagToSet(tasks') :
                      /\ task.pc = "encrypt" /\ task.plain = f.password
                      /\ tasks' = Started(task)
                      /\ alert' # FillAllFields]_vars

\* C9: an add whose website or username is empty once surrounding white space
\* is removed, or whose password is empty, is rejected without encrypting or
\* inserting; any other add proceeds to encryption with the trimmed website
\* and username and the password as typed.
AddValidationTrimmed ==
    [][\A t \in Tabs, f \in Forms :
          handleAddPasswordSubmit(t, f.website, f.username, f.password) =>
              IF Trim(f.website) = <<>> \/ Trim(f.username) = <<>> \/ f.password = <<>>
              THEN alert' = FillAllFields /\ tasks' = tasks /\ passwords' = passwords
              ELSE \E task \in BagToSet(tasks') :
                      /\ task.pc = "encrypt" /\ task.plain = f.password
                      /\ task.website = Trim(f.website) /\ task.username = Trim(f.username)
                      /\ tasks' = Started(task)
                      /\ alert' # FillAllFields]_vars

\* C9 happens: an add has been rejected by the validation
AddRejected == alert = FillAllFields

(***************************************************************************)
(* C10: delete.                                                            *)
(***************************************************************************)
\* C10: a delete that succeeds removes the entry with its id and nothing
\* else: the other entries and the key store are as before, and when no
\* entry has the id (a second delete of it) nothing changes.
DeleteLocal ==
    [][\A task \in BagToSet(tasks) : \A d \in {"removed", "absent"} :
          (/\ task.pc = "delete"
           /\ tasks' = Continued(task, [pc |-> "refresh", op |-> "delete",
                                        tab |-> task.tab, id |-> task.id, did |-> d]))
          => /\ keyStore' = keyStore
             /\ passwords' = {e \in passwords : e.id # task.id}
             /\ d = "absent" => passwords' = passwords]_vars

\* C10 happens: a delete of an id that no entry has succeeded, with another
\* entry in the store
DeletedAbsent ==
    /\ passwords # {}
    /\ \E task \in BagToSet(tasks) :
          task.pc = "refresh" /\ task.op = "delete" /\ task.did = "absent"

(***************************************************************************)
(* C11, C12: entry ids.                                                    *)
(***************************************************************************)
\* C11: an add that succeeded has returned to its caller the id the store
\* assigned to the entry it created.
AddReturnsId ==
    \A task \in BagToSet(tasks) :
        (task.pc = "refresh" /\ task.op = "add" /\ task.did = "stored")
            => task.returned = <<task.id>>

\* C12: entry ids are unique and monotonic: no two entries of the store share
\* an id; the key generator never goes back and stays above the id of every
\* entry, and an entry that is new in the store gets the generator's number,
\* so its id is greater than every id assigned before (the id of a deleted
\* entry is not used again); the entries that stay are unchanged, id included.
IdsUniqueMonotonic ==
    [][/\ keyGen' >= keyGen
       /\ \A e \in passwords' :
             /\ e.id < keyGen'
             /\ \/ e \in passwords
                \/ /\ e.id = keyGen
                   /\ \A x \in passwords : x.id < e.id
       /\ \A e1, e2 \in passwords' : e1.id = e2.id => e1 = e2]_vars

\* C12 happens: an entry was added after the entry with the first id was
\* deleted, and has the next id
AddedAfterDelete ==
    /\ \E e \in passwords : e.id = 2
    /\ \A e \in passwords : e.id # 1

(***************************************************************************)
(* The password generator: handleGeneratePassword reads the options of the *)
(* form and calls generateSecurePassword, which fills a Uint8Array of the  *)
(* requested length with random bytes.                                     *)
(***************************************************************************)
uppercaseChars == [i \in 1..26 |-> 64 + i]
lowercaseChars == [i \in 1..26 |-> 96 + i]
digitChars == [i \in 1..10 |-> 47 + i]
\* '!@#$%^&*()-_=+[]{}|;:,.<>?/'
symbolChars ==
    <<33, 64, 35, 36, 37, 94, 38, 42, 40, 41, 45, 95, 61, 43, 91, 93, 123, 125, 124,
      59, 58, 44, 46, 60, 62, 63, 47>>

\* a pool that puts the classes in the opposite order
CharPoolReversed(options) ==
    (IF options.useSymbols THEN symbolChars ELSE <<>>)
    \o (IF options.useDigits THEN digitChars ELSE <<>>)
    \o (IF options.useLowercase THEN lowercaseChars ELSE <<>>)
    \o (IF options.useUppercase THEN uppercaseChars ELSE <<>>)

\* charPool after the four "if (use...) charPool += ..."
CharPool(options) ==
    (IF options.useUppercase THEN uppercaseChars ELSE <<>>)
    \o (IF options.useLowercase THEN lowercaseChars ELSE <<>>)
    \o (IF options.useDigits THEN digitChars ELSE <<>>)
    \o (IF options.useSymbols THEN symbolChars ELSE <<>>)

\* what generateSecurePassword ends with: a string, or a thrown error; drew
\* tells whether crypto.getRandomValues was called
Generated(value) == [ok |-> TRUE, error |-> "none", value |-> value, drew |-> TRUE]
Thrown(error) == [ok |-> FALSE, error |-> error, value |-> <<>>, drew |-> FALSE]

\* a generator that allocates the byte array before it looks at the pool
generateSecurePasswordLengthFirst(options, randomValues) ==
    LET charPool == CharPool(options) IN
    IF options.length < 0 THEN Thrown("RangeError")
    ELSE IF charPool = <<>> THEN Thrown("NoCharacterClassSelected")
    ELSE Generated([i \in 1..options.length |->
                       charPool[(randomValues[i] % Len(charPool)) + 1]])

\* generateSecurePassword(options), randomValues being the bytes that
\* crypto.getRandomValues writes: an empty pool throws; new Uint8Array(length)
\* throws a RangeError for a negative length; otherwise one character per byte
generateSecurePassword(options, randomValues) ==
    LET charPool == CharPool(options) IN
    IF charPool = <<>> THEN Thrown("NoCharacterClassSelected")
    ELSE IF options.length < 0 THEN Thrown("RangeError")
    ELSE Generated([i \in 1..options.length |->
                       charPool[(randomValues[i] % Len(charPool)) + 1]])

\* the options the form can hold: parseInt of the length field, four checkboxes
GenOptions ==
    [length : -1..MaxGenLen, useUppercase : BOOLEAN, useLowercase : BOOLEAN,
     useDigits : BOOLEAN, useSymbols : BOOLEAN]

\* bytes that crypto.getRandomValues can write
ByteSamples == {0, 9, 10, 255}

\* the contents of new Uint8Array(length) after getRandomValues
RandomValues(length) == [1..(IF length > 0 THEN length ELSE 0) -> ByteSamples]

\* alert(error.message)
GenerateFailed(err) == [msg |-> "generateFailed", text |-> <<>>, err |-> err]

GenInit ==
    /\ keyStore = {}
    /\ passwords = {}
    /\ keyGen = 1
    /\ pc = [t \in Tabs |-> "closed"]
    /\ storedKey = [t \in Tabs |-> NoKey]
    /\ rawMasterKey = [t \in Tabs |-> NoKey]
    /\ rows = [t \in Tabs |-> {}]
    /\ tasks = EmptyBag
    /\ alert = NoAlert
    /\ keysMade = 0
    /\ ensured = NoKey
    /\ cx = [pc |-> "off"]
    /\ gx \in {[pc |-> "input", options |-> o] : o \in GenOptions}

\* a click on the generate button: the result goes to the field
\* generatedPassword, a thrown error to an alert
handleGeneratePassword(randomValues) ==
    /\ gx.pc = "input"
    /\ LET out == generateSecurePassword(gx.options, randomValues) IN
       /\ gx' = [pc |-> "done", options |-> gx.options, bytes |-> randomValues,
                 out |-> out]
       /\ alert' = IF out.ok THEN NoAlert ELSE GenerateFailed(out.error)
    /\ UNCHANGED <<storage, pc, storedKey, rawMasterKey, rows, tasks, outside, cx>>

GenNext ==
    \E randomValues \in RandomValues(IF gx.pc = "input" THEN gx.options.length ELSE 0) :
        handleGeneratePassword(randomValues)

GenSpec == GenInit /\ [][GenNext]_vars

(***************************************************************************)
(* C13, C14, C15: the generator.                                           *)
(***************************************************************************)
\* C13: for every length > 0 and every non-empty class set the generator
\* returns a string of exactly that length; for every length <= 0 it fails
\* and returns no string.
GeneratorLength ==
    gx.pc = "done" =>
        /\ (gx.options.length > 0 /\ CharPool(gx.options) # <<>>)
              => (gx.out.ok /\ Len(gx.out.value) = gx.options.length)
        /\ gx.options.length <= 0 => ~gx.out.ok

\* C14: the pool is the selected class alphabets in the order uppercase,
\* lowercase, digit, symbol, and the character at every position i of the
\* output is pool[randomByte_i % pool.length]; so every character of the
\* output belongs to a selected class.
GeneratorComposition ==
    (gx.pc = "done" /\ gx.out.ok) =>
        LET o == gx.options
            pool == (IF o.useUppercase THEN uppercaseChars ELSE <<>>)
                    \o (IF o.useLowercase THEN lowercaseChars ELSE <<>>)
                    \o (IF o.useDigits THEN digitChars ELSE <<>>)
                    \o (IF o.useSymbols THEN symbolChars ELSE <<>>)
            selected == (IF o.useUppercase THEN 65..90 ELSE {})
                        \cup (IF o.useLowercase THEN 97..122 ELSE {})
                        \cup (IF o.useDigits THEN 48..57 ELSE {})
                        \cup (IF o.useSymbols
                              THEN {symbolChars[k] : k \in 1..Len(symbolChars)} ELSE {})
        IN  \A i \in 1..Len(gx.out.value) :
                /\ gx.out.value[i] = pool[(gx.bytes[i] % Len(pool)) + 1]
                /\ gx.out.value[i] \in selected

\* C14 happens: a password of digits only was generated, one of them from a
\* byte that exceeds the length of the pool
DigitsGenerated ==
    /\ gx.pc = "done" /\ gx.out.ok
    /\ gx.options.useDigits /\ ~gx.options.useSymbols
    /\ ~gx.options.useUppercase /\ ~gx.options.useLowercase
    /\ Len(gx.out.value) = MaxGenLen
    /\ \E i \in 1..Len(gx.bytes) : gx.bytes[i] = 255 /\ gx.out.value[i] = 53

\* C15: with no class selected the generator fails with
\* NoCharacterClassSelected whatever the length is, draws no random bytes
\* and returns no string.
NoClassSelectedFails ==
    (/\ gx.pc = "done"
     /\ ~gx.options.useUppercase /\ ~gx.options.useLowercase
     /\ ~gx.options.useDigits /\ ~gx.options.useSymbols)
        => /\ ~gx.out.ok
           /\ gx.out.error = "NoCharacterClassSelected"
           /\ ~gx.out.drew
           /\ gx.out.value = <<>>
           /\ alert = GenerateFailed("NoCharacterClassSelected")

\* C15 happens: the generator was called with no class and a negative length
NoClassNegativeLength ==
    /\ gx.pc = "done"
    /\ ~gx.options.useUppercase /\ ~gx.options.useLowercase
    /\ ~gx.options.useDigits /\ ~gx.options.useSymbols
    /\ gx.options.length < 0

(***************************************************************************)
(* C16: nonces.  crypto.getRandomValues may return any 12 bytes, the ones  *)
(* of an earlier call included; the code keeps no record of the nonces it  *)
(* used.                                                                   *)
(***************************************************************************)
\* C16 as stated: no two entries encrypted under the same key carry the same
\* iv with different ciphertexts.
NonceNeverReused ==
    \A e1, e2 \in passwords :
        (e1.ciphertext.tag.key = e2.ciphertext.tag.key /\ e1.iv = e2.iv)
            => e1.ciphertext = e2.ciphertext

\* C16: every encrypt call draws 12 bytes from the random source and
\* encrypts with them: the result of each call, and every stored entry,
\* carries a 12-byte iv that the source can return, and the ciphertext beside
\* it was made with that iv.
NonceDrawnPerCall ==
    /\ \A e \in passwords :
          /\ Len(e.iv) = IvLen /\ e.iv \in IVs
          /\ e.ciphertext.tag.iv = e.iv
    /\ \A task \in BagToSet(tasks) :
          task.pc = "insert" =>
              /\ Len(task.iv) = IvLen /\ task.iv \in IVs
              /\ task.ciphertext.tag.iv = task.iv

\* C16 happens: two entries encrypted under the same key, with different ivs
TwoNonces ==
    \E e1, e2 \in passwords :
        /\ e1.ciphertext.tag.key = e2.ciphertext.tag.key
        /\ e1.iv # e2.iv

(***************************************************************************)
(* C17: secrets at rest and in the log.  The field given of an entry is    *)
(* history, not a stored field.                                            *)
(***************************************************************************)
\* C17: no record in persistent storage and no log line holds the raw master
\* key or a plaintext password: the key store holds no raw key, the stored
\* fields of an entry hold the password only encrypted, and what the failure
\* handlers log carries no text.
NoSecretAtRest ==
    /\ \A r \in keyStore : r.rawKey \notin Keys
    /\ \A e \in passwords :
          /\ e.ciphertext.body # TextEncode(e.given)
          /\ e.website # e.given /\ e.username # e.given
    /\ alert.err # "none" => alert.text = <<>>

CachedKeyReadOnly ==
    [][/\ \A t \in Tabs :
             (rawMasterKey[t] # NoKey /\ rawMasterKey'[t] # rawMasterKey[t]) => Reload(t)
       /\ \A task \in BagToSet(tasks') :
             task.pc = "encrypt" => task.key = rawMasterKey'[task.tab]]_vars

\* C19 happens: with the key cached and an entry stored, a reveal has
\* decrypted while an add is about to encrypt
RevealDuringAdd ==
    /\ alert.msg = "password"
    /\ passwords # {}
    /\ \E task \in BagToSet(tasks) :
          task.pc = "encrypt" /\ task.key = rawMasterKey[task.tab] /\ task.key # NoKey

\* C20: initialization precedes use: an add starts encrypting, and a reveal
\* decrypts, only with a key cached; when initApp fails reading the key,
\* generating it or saving it, the cache stays null; and a page whose initApp
\* failed has no row and no handler running.
InitPrecedesUse ==
    [][/\ \A task \in BagToSet(tasks') : task.pc = "encrypt" => task.key # NoKey
       /\ \A t \in Tabs : \A entry \in rows[t] :
             viewClick(t, entry) => rawMasterKey[t] # NoKey
       /\ \A t \in Tabs :
             (pc[t] \in {"getKey", "generate", "saveKey"} /\ pc'[t] = "failed")
                => rawMasterKey'[t] = NoKey
       /\ \A t \in Tabs :
             pc'[t] = "failed"
                => /\ rows'[t] = {}
                   /\ \A task \in BagToSet(tasks') : task.tab # t]_vars

\* C20 happens: initApp failed saving the key it had generated
KeyPersistFailed ==
    \E t \in Tabs :
        /\ pc[t] = "failed"
        /\ alert = InitFailed("saveKey")
        /\ storedKey[t] # NoKey
        /\ rawMasterKey[t] = NoKey

====
